---- MODULE Spec2Model ----
(***************************************************************************)
(* Model of package proto (src/proto/proto.go): the entry points Size and  *)
(* Unmarshal, the copy-on-write codec cache (loadCachedCodec,              *)
(* storeCachedCodec, cachedCodecOf), the kind dispatch of codecOf and the  *)
(* inlining decision inlined.                                              *)
(*                                                                         *)
(* Three specifications share the variables:                               *)
(*   Spec           goroutines calling Size concurrently                   *)
(*   FairSpec       Spec under a fair scheduler                            *)
(*   NestedSpec     Size calls with types that nest other types            *)
(*   UnmarshalSpec  goroutines calling Unmarshal concurrently              *)
(*   MarshalSpec    goroutines calling Size and Marshal concurrently       *)
(*   MarshalToSpec  goroutines calling MarshalTo concurrently              *)
(*   BuildSpec      codecOf and inlined applied to one type of AllTypes    *)
(* Goroutines are anonymous: the running calls form a bag.                 *)
(***************************************************************************)
EXTENDS Integers, Sequences, FiniteSets, Bags, TLC

\* ------------------------------------------------------------------ bounds
NumThreads == 2
MaxCalls == 3
MaxBuf == 1
MaxFields == 2
MaxBuildCalls == 12

\* ------------------------------------------------------------ reflect types
\* A reflect.Type is a term: its kind, its element types (the element of an
\* array, slice, pointer or chan; key and value of a map; the fields of a
\* struct, in declaration order) and, for a named recursive struct, its name.
Prim(k) == [kind |-> k, name |-> "", elems |-> <<>>]
ArrayOf(e) == [kind |-> "Array", name |-> "", elems |-> <<e>>]
SliceOf(e) == [kind |-> "Slice", name |-> "", elems |-> <<e>>]
PtrTo(e) == [kind |-> "Ptr", name |-> "", elems |-> <<e>>]
ChanOf(e) == [kind |-> "Chan", name |-> "", elems |-> <<e>>]
MapOf(k, v) == [kind |-> "Map", name |-> "", elems |-> <<k, v>>]
StructOf(fs) == [kind |-> "Struct", name |-> "", elems |-> fs]

\* type Node struct { Value int32; Next *Node }
NodeT == [kind |-> "Struct", name |-> "Node", elems |-> <<>>]
\* type Wrap struct { Inner *Wrap }
WrapT == [kind |-> "Struct", name |-> "Wrap", elems |-> <<>>]

Int32T == Prim("Int32")
StringT == Prim("String")
Uint8T == Prim("Uint8")
BytesT == SliceOf(Uint8T)

\* t.Kind()
Kind(t) == t.kind

\* t.NumField(), t.Field(i).Type
Fields(t) ==
    IF t.name = "Node" THEN <<Int32T, PtrTo(NodeT)>>
    ELSE IF t.name = "Wrap" THEN <<PtrTo(WrapT)>>
    ELSE t.elems

NumField(t) == Len(Fields(t))

\* reflect's Type.Elem panics unless the kind is one of these
ElemKinds == {"Array", "Chan", "Map", "Ptr", "Slice"}

\* t.Elem(): the element type (the value type of a map)
Elem(t) == t.elems[Len(t.elems)]

LeafKinds ==
    {"Bool", "Int", "Int8", "Int16", "Int32", "Int64",
     "Uint", "Uint8", "Uint16", "Uint32", "Uint64", "Uintptr",
     "Float32", "Float64", "Complex64", "Complex128",
     "String", "UnsafePointer", "Func", "Interface"}

Leaf == {Prim(k) : k \in LeafKinds}

FieldTypes ==
    {Int32T, StringT, BytesT, PtrTo(NodeT), MapOf(StringT, Int32T), Prim("Int16")}

Structs == {StructOf(fs) : fs \in UNION {[1..n -> FieldTypes] : n \in 0..MaxFields}}

Depth1 == UNION {{ArrayOf(e), SliceOf(e), PtrTo(e), ChanOf(e)} : e \in Leaf}

Maps == {MapOf(k, v) : k \in {StringT, Int32T}, v \in {Int32T, StringT, BytesT}}

Nested ==
    {NodeT, PtrTo(NodeT), WrapT, PtrTo(WrapT),
     PtrTo(PtrTo(Int32T)), PtrTo(SliceOf(Int32T)), PtrTo(BytesT),
     PtrTo(MapOf(StringT, Int32T)), PtrTo(ArrayOf(Uint8T)),
     StructOf(<<PtrTo(Int32T)>>), StructOf(<<StructOf(<<PtrTo(Int32T)>>)>>),
     StructOf(<<StructOf(<<Int32T>>)>>), StructOf(<<NodeT, ArrayOf(Uint8T)>>),
     StructOf(<<ArrayOf(Int32T)>>), StructOf(<<PtrTo(Prim("Int8"))>>),
     ArrayOf(ArrayOf(Uint8T)), SliceOf(BytesT), SliceOf(NodeT),
     ArrayOf(PtrTo(Uint8T)), SliceOf(PtrTo(Uint8T))}

AllTypes == Leaf \cup Depth1 \cup Maps \cup Structs \cup Nested

\* ------------------------------------------------------------------ codecs
\* A *codec is identified by the type it was built for and by its address:
\* id 0 is a package-level codec (&boolCodec, ..., &bytesCodec), a positive
\* id is a codec allocated by one run of the builder.
NilCodec == [typ |-> Prim("Invalid"), id |-> 0 - 1]

\* the kinds whose case returns the address of a package-level codec
StaticKinds ==
    {"Bool", "Int", "Int32", "Int64", "Uint", "Uint32", "Uint64",
     "Float32", "Float64", "String"}

RECURSIVE codecOf(_, _)
RECURSIVE fieldCodecsOf(_, _, _)
RECURSIVE inlined(_)

\* what a call of the builder yields: ok = FALSE is the panic, seen is the
\* session registry after the call
Built(seen) == [ok |-> TRUE, seen |-> seen]
Panic(seen) == [ok |-> FALSE, seen |-> seen]

\* the codecs of the fields fs[i..], in declaration order
fieldCodecsOf(fs, i, seen) ==
    IF i > Len(fs) THEN Built(seen)
    ELSE LET r == codecOf(fs[i], seen)
         IN  IF r.ok THEN fieldCodecsOf(fs, i + 1, r.seen) ELSE r

\* registers a forward-declared codec for t, then builds the fields
structCodecOf(t, seen) == fieldCodecsOf(Fields(t), 1, seen \cup {t})

\* registers a forward-declared codec for t, then builds the pointee
pointerCodecOf(t, seen) == codecOf(Elem(t), seen \cup {t})

byteArrayCodecOf(t, seen) == Built(seen \cup {t})

\* case reflect.Array
arrayCase(t, seen) ==
    IF Kind(Elem(t)) = "Uint8" THEN byteArrayCodecOf(t, seen) ELSE Panic(seen)

\* case reflect.Slice
sliceCaseM(t, seen) == Built(seen)
sliceCase(t, seen) ==
    IF Kind(Elem(t)) = "Uint8" THEN Built(seen) ELSE Panic(seen)

codecOf(t, seen) ==
    IF t \in seen THEN Built(seen)
    ELSE IF Kind(t) \in StaticKinds THEN Built(seen)
    ELSE IF Kind(t) = "Array" THEN arrayCase(t, seen)
    ELSE IF Kind(t) = "Slice" THEN sliceCase(t, seen)
    ELSE IF Kind(t) = "Struct" THEN structCodecOf(t, seen)
    ELSE IF Kind(t) = "Ptr" THEN pointerCodecOf(t, seen)
    ELSE Panic(seen)

\* codecOf returns a package-level codec for t (no allocation)
StaticCodec(t) == Kind(t) \in StaticKinds \/ (Kind(t) = "Slice" /\ Kind(Elem(t)) = "Uint8")

\* case reflect.Struct without the test of the number of fields
inlinedM(t) ==
    IF Kind(t) = "Struct" THEN NumField(t) >= 1 /\ inlined(Fields(t)[1])
    ELSE Kind(t) \in {"Ptr", "Map"}
inlined(t) ==
    IF Kind(t) = "Ptr" THEN TRUE
    ELSE IF Kind(t) = "Map" THEN TRUE
    ELSE IF Kind(t) = "Struct" THEN NumField(t) = 1 /\ inlined(Fields(t)[1])
    ELSE FALSE

\* ------------------------------------------------------------------- flags
noflags == 0
inline == 1
wantzero == 2

\* f.has(x), for flags that are sets of the bits above
has(f, x) == (f \div x) % 2 = 1

\* the values Size, Marshal and MarshalTo are called with: the zero value
\* of the type and a value that is not zero
Values == {0, 1}

\* c.size(p, f) for the codec c and the value v at p: a pure function of the
\* type c was built for, the value and the flags.  A varint of a value
\* below 128 is one byte; a struct elides its zero-valued fields, writes a
\* tag and the value for the others, and is wrapped in a length-prefixed
\* block unless it is inlined
size(c, v, f) ==
    IF Kind(c.typ) = "Struct"
    THEN (IF v = 0 THEN 0 ELSE 2) + (IF has(f, inline) THEN 0 ELSE 1)
    ELSE 1

\* c.encode(b, p, f) into a buffer of blen bytes: the bytes written, and
\* whether it fails; it fails when the buffer is too small, or for a
\* violated internal invariant (fault)
encode(c, blen, v, f, fault) ==
    IF fault \/ blen < size(c, v, f)
    THEN [n |-> 0, err |-> TRUE]
    ELSE [n |-> size(c, v, f), err |-> FALSE]

\* ------------------------------------------------------------------- state
VARIABLES
    codecCache,   \* the map held by the atomic.Value (0: nothing stored yet)
    heap,         \* the maps that are reachable: map id -> (type -> codec)
    inflight,     \* bag of the calls that are running: the locals of each
    last,         \* the return or panic this step made, if any
    calls,        \* number of calls started
    requested,    \* history: the types cachedCodecOf was called for
    published,    \* history: the reachable maps codecCache has held
    lastStore,    \* history: the (type, codec) of the last codecCache.Store
    settled,      \* history: types cached at a moment with no call in flight
    bt,           \* BuildSpec: the type handed to the builder
    bres,         \* BuildSpec: outcome of codecOf(bt, {})
    binl,         \* BuildSpec: outcome of inlined(bt)
    bstack,       \* BuildSpec: the types codecOf is still to be called for
    bseen,        \* BuildSpec: the session registry seen of the build
    bcalls,       \* BuildSpec: number of codecOf calls of the build so far
    bout          \* BuildSpec: state of the build that runs call by call

vars ==
    <<codecCache, heap, inflight, last, calls, requested, published,
      lastStore, settled, bt, bres, binl, bstack, bseen, bcalls, bout>>

buildVars == <<bt, bres, binl, bstack, bseen, bcalls, bout>>
stepVars == <<bstack, bseen, bcalls, bout>>
cacheVars == <<codecCache, heap, inflight, last, calls, requested, published,
               lastStore, settled>>

\* the types Size is called with: a package-level codec, an allocated
\* codec (of a self-referential struct), and an unsupported type
CallTypes == {Int32T, NodeT, SliceOf(Int32T)}

\* the types Size is called with in NestedSpec: a struct, a type that nests
\* it, an unsupported type and a type that nests an unsupported one
NestedTypes == {NodeT, PtrTo(NodeT), SliceOf(Int32T), PtrTo(SliceOf(Int32T))}

\* the types Marshal and MarshalTo are called with: a package-level codec
\* and an allocated one
MarshalTypes == {Int32T, NodeT}

\* the types of the value Unmarshal is called with: a pointer, a value
\* without element type, a value that is no pointer and has an element type
TargetTypes == {PtrTo(Int32T), Int32T, SliceOf(StringT)}

\* the values a decode leaves in the target, which starts as 0
TargetVals == {0, 1}

\* the nil map of loadCachedCodec's failed type assertion
EmptyMap == [x \in {} |-> NilCodec]

\* the snapshot that is current
Snapshot == heap[codecCache]

\* cache[pointer(t)]: nil when the key is absent (also for the nil map)
Lookup(m, t) == IF t \in DOMAIN heap[m] THEN heap[m][t] ELSE NilCodec

\* the locals of a call, as it starts
Call(op, vt) ==
    [pc |-> "entry", op |-> op, vtyp |-> vt, typ |-> Prim("Invalid"),
     blen |-> 0, old |-> 0, c |-> NilCodec, new |-> 0, todo |-> {},
     hit |-> FALSE, built |-> FALSE, stored |-> FALSE, made |-> {}, tgt |-> 0]

\* the calls that are running
Running == BagToSet(inflight)

\* no call is in flight
Quiescent == inflight = EmptyBag

\* the running calls after call g has moved on to g2
Moved(g, g2) == (inflight (-) SetToBag({g})) (+) SetToBag({g2})

\* the running calls after call g has ended
Ended(g) == inflight (-) SetToBag({g})

\* the return statement or panic site a call ended at and its target; n and
\* derr are what c.decode or c.encode returned, if the call got that far; val
\* is the value passed to Size, Marshal or MarshalTo, len the number Size
\* returned or the length of the buffer Marshal returned
At(site, g) ==
    [site |-> site, tgt |-> g.tgt, n |-> 0, derr |-> FALSE, val |-> 0, len |-> 0]

\* the step was no return and no panic
NoReturn ==
    [site |-> "none", tgt |-> 0, n |-> 0, derr |-> FALSE, val |-> 0, len |-> 0]

\* what the caller gets at each site
Result(site) ==
    CASE site = "Size:13" -> "size"
      [] site = "Marshal:22" -> "err"
      [] site = "Marshal:24" -> "buffer"
      [] site = "MarshalTo:34" -> "n, err"
      [] site = "Unmarshal:39" -> "nil"
      [] site = "Unmarshal:48" -> "err"
      [] site = "Unmarshal:51" -> "read < buffer error"
      [] site = "Unmarshal:53" -> "nil"
      [] site \in {"panic Elem:43", "panic codecOf:217"} -> "panic"
      [] OTHER -> "none"

\* the return r hands a non-nil error to the caller
ReturnsError(r) ==
    \/ r.site \in {"Marshal:22", "Unmarshal:48", "Unmarshal:51"}
    \/ r.site = "MarshalTo:34" /\ r.derr

\* what the text of the error returned at a site names: fmt.Errorf with
\* "proto.Marshal(%T): %w", with "proto.MarshalTo: %w", the decode error as
\* it is, and fmt.Errorf with "proto.Unmarshal(%T): read=%d < buffer=%d"
ErrorText(site) ==
    CASE site = "Marshal:22" -> [op |-> TRUE, typ |-> TRUE]
      [] site = "MarshalTo:34" -> [op |-> TRUE, typ |-> FALSE]
      [] site = "Unmarshal:48" -> [op |-> FALSE, typ |-> FALSE]
      [] site = "Unmarshal:51" -> [op |-> TRUE, typ |-> TRUE]
      [] OTHER -> [op |-> FALSE, typ |-> FALSE]

\* least element of a non-empty set of numbers
Least(S) == CHOOSE i \in S : \A j \in S : i <= j

\* address of a newly allocated map: one no reachable map has
FreshMap == Least((1..(Cardinality(DOMAIN heap) + 1)) \ DOMAIN heap)

\* the codec addresses in use
CodecIds ==
    UNION {{heap[m][t].id : t \in DOMAIN heap[m]} : m \in DOMAIN heap}
        \cup {g.c.id : g \in Running} \cup {lastStore.c.id}

\* address of a newly allocated codec: one no codec in use has
FreshCodec == Least((1..(Cardinality(CodecIds) + 1)) \ CodecIds)

Init ==
    /\ codecCache = 0
    /\ heap = (0 :> EmptyMap)
    /\ inflight = EmptyBag
    /\ last = NoReturn
    /\ calls = 0
    /\ requested = {}
    /\ published = {0}
    /\ lastStore = [typ |-> Prim("Invalid"), c |-> NilCodec]
    /\ settled = {}
    /\ bt = Int32T
    /\ bres = "none"
    /\ binl = "none"
    /\ bstack = <<>>
    /\ bseen = {}
    /\ bcalls = 0
    /\ bout = "none"

\* the maps reachable after the step: the nil map, the one in codecCache
\* and those a running call holds
Reachable ==
    {0, codecCache'} \cup {g.old : g \in BagToSet(inflight')}
                     \cup {g.new : g \in BagToSet(inflight')}

\* end of every step: h and pub are the maps and the stored maps after it;
\* unreachable maps are garbage, the types cached while no call is in flight
\* are recorded, the variables of BuildSpec stay
Settle(h, pub) ==
    /\ heap' = [m \in DOMAIN h \cap Reachable |-> h[m]]
    /\ published' = pub \cap Reachable
    /\ settled' = settled \cup (IF Quiescent' THEN DOMAIN h[codecCache'] ELSE {})
    /\ UNCHANGED buildVars

\* a goroutine is free to start a call
CanCall == BagCardinality(inflight) < NumThreads /\ calls < MaxCalls

\* a call of Size with a value of one of the types: t, p := inspect(v),
\* then cachedCodecOf(t)
SizeOf(types) ==
    /\ CanCall
    /\ last' = NoReturn
    /\ \E t \in types :
         /\ inflight' = inflight (+) SetToBag({[Call("Size", t) EXCEPT !.pc = "load", !.typ = t]})
         /\ requested' = requested \cup {t}
    /\ calls' = calls + 1
    /\ UNCHANGED <<codecCache, lastStore>>
    /\ Settle(heap, published)

\* Size, called with the types of each specification
Size == SizeOf(CallTypes)
SizeNested == SizeOf(NestedTypes)
SizeMarshalled == SizeOf(MarshalTypes)

\* a call Unmarshal(b, v): the length of b and the type of v
UnmarshalCall ==
    /\ CanCall
    /\ last' = NoReturn
    /\ \E vt \in TargetTypes, blen \in 0..MaxBuf :
         inflight' = inflight (+) SetToBag({[Call("Unmarshal", vt) EXCEPT !.blen = blen]})
    /\ calls' = calls + 1
    /\ UNCHANGED <<codecCache, requested, lastStore>>
    /\ Settle(heap, published)

\* if len(b) == 0
emptyBufferM(blen) == FALSE
emptyBuffer(blen) == blen = 0

\* Unmarshal up to the call of cachedCodecOf: the empty-buffer return,
\* inspect, and t.Elem(), which panics for a type without an element type
Unmarshal ==
    \E g \in Running :
      /\ g.pc = "entry"
      /\ IF emptyBuffer(g.blen)
         THEN /\ inflight' = Ended(g)
              /\ last' = At("Unmarshal:39", g)
              /\ requested' = requested
         ELSE IF Kind(g.vtyp) \notin ElemKinds
         THEN /\ inflight' = Ended(g)
              /\ last' = At("panic Elem:43", g)
              /\ requested' = requested
         ELSE /\ inflight' = Moved(g, [g EXCEPT !.pc = "load", !.typ = Elem(g.vtyp)])
              /\ last' = NoReturn
              /\ requested' = requested \cup {Elem(g.vtyp)}
      /\ UNCHANGED <<codecCache, calls, lastStore>>
      /\ Settle(heap, published)

\* if c != nil { return c }
cacheHitM(c) == FALSE
cacheHit(c) == c # NilCodec

\* cachedCodecOf: c, m := loadCachedCodec(t) and the hit return
loadCachedCodec ==
    \E g \in Running :
      /\ g.pc = "load"
      /\ last' = NoReturn
      /\ LET m == codecCache
             c == Lookup(m, g.typ)
             l == [g EXCEPT !.old = m, !.hit = (g.typ \in DOMAIN heap[m])]
         IN  inflight' = Moved(g, IF cacheHit(c) THEN [l EXCEPT !.pc = "use", !.c = c]
                                  ELSE [l EXCEPT !.pc = "build"])
      /\ UNCHANGED <<codecCache, calls, requested, lastStore>>
      /\ Settle(heap, published)

\* the build of t panics
buildFailsM(t) == FALSE
buildFails(t) == ~codecOf(t, {}).ok

\* cachedCodecOf: c = codecOf(t, make(map[reflect.Type]*codec)); made is the
\* registry at the end of the build: the types a codec was allocated for
buildCodec ==
    \E g \in Running :
      /\ g.pc = "build"
      /\ IF ~buildFails(g.typ)
         THEN /\ inflight' = Moved(g, [g EXCEPT !.pc = "alloc", !.built = TRUE,
                       !.made = codecOf(g.typ, {}).seen,
                       !.c = [typ |-> g.typ,
                              id |-> IF StaticCodec(g.typ) THEN 0 ELSE FreshCodec]])
              /\ last' = NoReturn
         ELSE /\ inflight' = Ended(g)
              /\ last' = At("panic codecOf:217", g)
      /\ UNCHANGED <<codecCache, calls, requested, lastStore>>
      /\ Settle(heap, published)

\* the map storeCachedCodec fills: a new one
newCacheM(old) == old
newCache(old) == FreshMap

\* storeCachedCodec: newCache := make(map[unsafe.Pointer]*codec, len(oldCache)+1)
storeMake ==
    \E g \in Running :
      /\ g.pc = "alloc"
      /\ last' = NoReturn
      /\ UNCHANGED <<codecCache, calls, requested, lastStore>>
      /\ LET id == newCache(g.old)
         IN  /\ inflight' = Moved(g, [g EXCEPT !.pc = "copy", !.new = id,
                                               !.todo = DOMAIN heap[g.old]])
             /\ Settle(IF id \in DOMAIN heap THEN heap ELSE heap @@ (id :> EmptyMap),
                       published)

\* the codec the loop stores under key p: newCache[p] = c
copiedM(g, p) == g.c
copied(g, p) == heap[g.old][p]

\* storeCachedCodec: one iteration of for p, c := range oldCache (any order)
storeCopy ==
    \E g \in Running :
      /\ g.pc = "copy"
      /\ last' = NoReturn
      /\ g.todo # {}
      /\ UNCHANGED <<codecCache, calls, requested, lastStore>>
      /\ \E p \in g.todo :
           /\ inflight' = Moved(g, [g EXCEPT !.todo = g.todo \ {p}])
           /\ Settle([heap EXCEPT ![g.new] = (p :> copied(g, p)) @@ heap[g.new]],
                     published)

\* storeCachedCodec: newCache[pointer(t)] = newCodec, after the loop
storeSet ==
    \E g \in Running :
      /\ g.pc = "copy"
      /\ last' = NoReturn
      /\ g.todo = {}
      /\ UNCHANGED <<codecCache, calls, requested, lastStore>>
      /\ inflight' = Moved(g, [g EXCEPT !.pc = "store"])
      /\ Settle([heap EXCEPT ![g.new] = (g.typ :> g.c) @@ heap[g.new]], published)

\* the map handed to codecCache.Store
storedMapM(g) == g.old
storedMap(g) == g.new

\* where a call is after codecCache.Store: cachedCodecOf returns c
afterStoreM(g) == IF codecCache # g.old THEN "load" ELSE "use"
afterStore(g) == "use"

\* storeCachedCodec: codecCache.Store(newCache); cachedCodecOf returns c
storeCachedCodec ==
    \E g \in Running :
      /\ g.pc = "store"
      /\ last' = NoReturn
      /\ codecCache' = storedMap(g)
      /\ lastStore' = [typ |-> g.typ, c |-> g.c]
      /\ inflight' = Moved(g, [g EXCEPT !.pc = afterStore(g), !.stored = TRUE,
                                        !.old = 0, !.new = 0])
      /\ UNCHANGED <<calls, requested>>
      /\ Settle(heap, published \cup {storedMap(g)})

\* Size: return c.size(p, inline)
sizeCall ==
    \E g \in Running :
      /\ g.pc = "use"
      /\ g.op = "Size"
      /\ inflight' = Ended(g)
      /\ \E v \in Values :
           last' = [At("Size:13", g) EXCEPT !.val = v, !.len = size(g.c, v, inline)]
      /\ UNCHANGED <<codecCache, calls, requested, lastStore>>
      /\ Settle(heap, published)

\* if n < len(b)
shortReadM(n, blen) == FALSE
shortRead(n, blen) == n < blen

\* Unmarshal: n, err := c.decode(b, p, noflags), which reads n of the len(b)
\* bytes, fails or not, and writes the target; then the checks of err and n
decodeCall ==
    \E g \in Running :
      /\ g.pc = "use"
      /\ g.op = "Unmarshal"
      /\ inflight' = Ended(g)
      /\ \E n \in 0..g.blen, derr \in BOOLEAN, v \in TargetVals :
           last' = [site |-> IF derr THEN "Unmarshal:48"
                             ELSE IF shortRead(n, g.blen) THEN "Unmarshal:51"
                             ELSE "Unmarshal:53",
                    tgt |-> v, n |-> n, derr |-> derr, val |-> 0, len |-> 0]
      /\ UNCHANGED <<codecCache, calls, requested, lastStore>>
      /\ Settle(heap, published)

\* cachedCodecOf: one step of one of the calls that are inside it
cachedCodecOf ==
    \/ loadCachedCodec
    \/ buildCodec
    \/ storeMake
    \/ storeCopy
    \/ storeSet
    \/ storeCachedCodec

\* goroutines calling Size
Next == Size \/ cachedCodecOf \/ sizeCall

Spec == Init /\ [][Next]_vars

\* goroutines calling Size with types that nest other types
NestedNext == SizeNested \/ cachedCodecOf \/ sizeCall

NestedSpec == Init /\ [][NestedNext]_vars

\* the scheduler lets a goroutine that is inside cachedCodecOf run
FairSpec == Spec /\ WF_vars(cachedCodecOf)

\* Marshal: t, p := inspect(v), then cachedCodecOf(t)
Marshal ==
    /\ CanCall
    /\ last' = NoReturn
    /\ \E t \in MarshalTypes :
         /\ inflight' = inflight (+) SetToBag({[Call("Marshal", t) EXCEPT !.pc = "load", !.typ = t]})
         /\ requested' = requested \cup {t}
    /\ calls' = calls + 1
    /\ UNCHANGED <<codecCache, lastStore>>
    /\ Settle(heap, published)

\* MarshalTo: t, p := inspect(v), then cachedCodecOf(t)
MarshalTo ==
    /\ CanCall
    /\ last' = NoReturn
    /\ \E t \in MarshalTypes :
         /\ inflight' = inflight (+) SetToBag({[Call("MarshalTo", t) EXCEPT !.pc = "load", !.typ = t]})
         /\ requested' = requested \cup {t}
    /\ calls' = calls + 1
    /\ UNCHANGED <<codecCache, lastStore>>
    /\ Settle(heap, published)

\* the length of the buffer Marshal makes for a value of n bytes
allocLenM(n) == n + 1
allocLen(n) == n

\* Marshal: b := make([]byte, c.size(p, inline)), c.encode(b, p, inline) and
\* the return of b, or of nil and the wrapped error
marshalCall ==
    \E g \in Running :
      /\ g.pc = "use"
      /\ g.op = "Marshal"
      /\ inflight' = Ended(g)
      /\ \E v \in Values, fault \in BOOLEAN :
           LET blen == allocLen(size(g.c, v, inline))
               r == encode(g.c, blen, v, inline, fault)
           IN  last' = IF r.err
                       THEN [At("Marshal:22", g) EXCEPT !.val = v, !.derr = TRUE]
                       ELSE [At("Marshal:24", g) EXCEPT !.val = v, !.n = r.n,
                                                        !.len = blen]
      /\ UNCHANGED <<codecCache, calls, requested, lastStore>>
      /\ Settle(heap, published)

\* MarshalTo: n, err := c.encode(b, p, inline) into the caller's buffer, and
\* the return of n and the error, wrapped if there is one
marshalToCall ==
    \E g \in Running :
      /\ g.pc = "use"
      /\ g.op = "MarshalTo"
      /\ inflight' = Ended(g)
      /\ \E v \in Values, blen \in 0..MaxBuf, fault \in BOOLEAN :
           LET r == encode(g.c, blen, v, inline, fault)
           IN  last' = [At("MarshalTo:34", g) EXCEPT !.val = v, !.n = r.n,
                                                     !.derr = r.err, !.len = blen]
      /\ UNCHANGED <<codecCache, calls, requested, lastStore>>
      /\ Settle(heap, published)

\* goroutines calling Size and Marshal
MarshalNext ==
    SizeMarshalled \/ Marshal \/ cachedCodecOf \/ sizeCall \/ marshalCall

MarshalSpec == Init /\ [][MarshalNext]_vars

\* goroutines calling MarshalTo
MarshalToNext == MarshalTo \/ cachedCodecOf \/ marshalToCall

MarshalToSpec == Init /\ [][MarshalToNext]_vars

\* goroutines calling Unmarshal
UnmarshalNext == UnmarshalCall \/ Unmarshal \/ cachedCodecOf \/ decodeCall

UnmarshalSpec == Init /\ [][UnmarshalNext]_vars

\* --------------------------------------------------------------- BuildSpec
BuildInit ==
    /\ codecCache = 0
    /\ heap = (0 :> EmptyMap)
    /\ inflight = EmptyBag
    /\ last = NoReturn
    /\ calls = 0
    /\ requested = {}
    /\ published = {0}
    /\ lastStore = [typ |-> Prim("Invalid"), c |-> NilCodec]
    /\ settled = {}
    /\ bt \in AllTypes
    /\ bres = "none"
    /\ binl = "none"
    /\ bstack = <<>>
    /\ bseen = {}
    /\ bcalls = 0
    /\ bout = "none"

\* a top-level build, as cachedCodecOf starts it
BuildCodecOf ==
    /\ bres = "none"
    /\ bres' = IF codecOf(bt, {}).ok THEN "codec" ELSE "panic"
    /\ UNCHANGED <<bt, binl>>
    /\ UNCHANGED stepVars
    /\ UNCHANGED cacheVars

EvalInlined ==
    /\ binl = "none"
    /\ binl' = IF inlined(bt) THEN "inlined" ELSE "wrapped"
    /\ UNCHANGED <<bt, bres>>
    /\ UNCHANGED stepVars
    /\ UNCHANGED cacheVars

\* the registry a top-level build starts with: make(map[reflect.Type]*codec)
freshSeenM(seen) == seen
freshSeen(seen) == {}

\* cachedCodecOf calls codecOf(t, make(map[reflect.Type]*codec)): a top-level
\* build starts, the first or a later one of the same type
startBuild ==
    /\ bout \in {"none", "codec"}
    /\ bstack' = <<bt>>
    /\ bseen' = freshSeen(bseen)
    /\ bcalls' = 0
    /\ bout' = "running"
    /\ UNCHANGED <<bt, bres, binl>>
    /\ UNCHANGED cacheVars

\* if c := seen[t]; c != nil
seenHitM(t, seen) == FALSE
seenHit(t, seen) == t \in seen

\* the types structCodecOf and pointerCodecOf call codecOf for, after they
\* have registered t: the field types in declaration order, the pointee
dependents(t) == IF Kind(t) = "Struct" THEN Fields(t) ELSE <<Elem(t)>>

\* one call of codecOf of the running build, for the type that is next:
\* the check of seen, then the switch on the kind
codecOfCall ==
    /\ bout = "running"
    /\ bstack # <<>>
    /\ bcalls < MaxBuildCalls
    /\ bcalls' = bcalls + 1
    /\ LET t == Head(bstack)
           r == IF Kind(t) = "Array" THEN arrayCase(t, bseen)
                ELSE sliceCase(t, bseen)
           todo == IF seenHit(t, bseen) \/ Kind(t) \in StaticKinds \cup {"Array", "Slice"}
                   THEN Tail(bstack)
                   ELSE dependents(t) \o Tail(bstack)
           panics == /\ ~seenHit(t, bseen)
                     /\ \/ Kind(t) \notin StaticKinds \cup {"Array", "Slice", "Struct", "Ptr"}
                        \/ Kind(t) \in {"Array", "Slice"} /\ ~r.ok
       IN  IF panics
           THEN /\ bout' = "panic"
                /\ bstack' = <<>>
                /\ bseen' = bseen
           ELSE /\ bout' = IF todo = <<>> THEN "codec" ELSE "running"
                /\ bstack' = todo
                /\ bseen' = IF seenHit(t, bseen) \/ Kind(t) \in StaticKinds THEN bseen
                             ELSE IF Kind(t) \in {"Array", "Slice"} THEN r.seen
                             ELSE bseen \cup {t}
    /\ UNCHANGED <<bt, bres, binl>>
    /\ UNCHANGED cacheVars

BuildNext == BuildCodecOf \/ EvalInlined \/ startBuild \/ codecOfCall

BuildSpec == BuildInit /\ [][BuildNext]_vars

\* ------------------------------------------------------------------ claims
\* call g is inside cachedCodecOf after a miss
Missing(g) == g.pc \in {"build", "alloc", "copy", "store"}

\* the step is one of call g
Moves(g) == CopiesIn(g, inflight') < CopiesIn(g, inflight)

\* the step ends call g: it returns or panics
Ends(g) == Moves(g) /\ BagCardinality(inflight') < BagCardinality(inflight)

\* C1: the cache only grows -- a type that has an entry in the snapshot held
\* by codecCache has an entry in every later snapshot held by codecCache.
C1_CacheOnlyGrows ==
    [][DOMAIN Snapshot \subseteq DOMAIN heap'[codecCache']]_vars

\* C2: the snapshot a miss publishes is the snapshot current at the moment
\* of the publish plus the new (type, codec) entry.
C2_PublishExtendsCurrent ==
    [][\A g \in Running :
         (g.pc = "store" /\ Moves(g))
            => heap'[codecCache'] = (g.typ :> g.c) @@ Snapshot]_vars

\* C3: cache convergence -- every cachedCodecOf call returns a non-nil codec
\* built for its type; when all calls so far were for one supported type T
\* and all have finished, the current snapshot maps T to the codec of the
\* last publish; and a type cached at a moment when no call is in flight is
\* cached ever after (every later lookup of it is a hit).
C3_Convergence ==
    /\ \A g \in Running :
         g.pc = "use" => (g.c # NilCodec /\ g.c.typ = g.typ)
    /\ \A T \in requested :
         (requested = {T} /\ codecOf(T, {}).ok /\ Quiescent)
            => /\ T \in DOMAIN Snapshot
               /\ lastStore.typ = T
               /\ Snapshot[T] = lastStore.c
               /\ Snapshot[T].typ = T
    /\ settled \subseteq DOMAIN Snapshot

\* all calls were for Node and have finished, and the snapshot holds the
\* second codec built for Node: two calls missed, built and published, and
\* the second build published last
C3_Witness ==
    /\ requested = {NodeT}
    /\ Quiescent
    /\ calls >= 2
    /\ Snapshot[NodeT] = lastStore.c
    /\ lastStore.c.id = 2

\* C4: a published snapshot is immutable -- a map that codecCache has held
\* keeps exactly its entries in every step, the map a miss fills is not one
\* codecCache has held until it is stored, and the map a reader loaded is one
\* that was stored complete.
C4_SnapshotImmutable ==
    /\ [][\A m \in published : m \in DOMAIN heap' => heap'[m] = heap[m]]_vars
    /\ [](\A g \in Running :
            /\ g.pc \in {"copy", "store"} => g.new \notin published
            /\ Missing(g) => g.old \in published)

\* a miss still holds a non-empty snapshot that codecCache has since replaced
C4_Witness ==
    \E g \in Running :
        /\ Missing(g)
        /\ g.old # codecCache
        /\ DOMAIN heap[g.old] # {}
        /\ heap[g.old] # Snapshot

\* C5: the builder runs only on a miss -- a call whose lookup finds an entry
\* returns that entry's codec, builds nothing and stores nothing.
C5_BuildOnlyOnMiss ==
    \A g \in Running :
        g.hit =>
            /\ ~g.built
            /\ ~g.stored
            /\ ~Missing(g)
            /\ g.pc = "use" => (g.c # NilCodec /\ g.c = Lookup(g.old, g.typ))

\* cachedCodecOf has returned the cached codec of Node to a Size call
C5_Witness ==
    \E g \in Running :
        g.hit /\ g.pc = "use" /\ g.c.typ = NodeT /\ g.c.id > 0

\* C6: Unmarshal of a zero-length buffer returns success for every target,
\* leaves the target unchanged, builds no codec and leaves the cache as it is.
C6_EmptyBufferNoOp ==
    [][\A g \in Running :
         (g.op = "Unmarshal" /\ g.pc = "entry" /\ g.blen = 0 /\ Moves(g))
            => /\ Ends(g)
               /\ last'.site = "Unmarshal:39"
               /\ last'.tgt = g.tgt
               /\ Result(last'.site) = "nil"
               /\ codecCache' = codecCache
               /\ heap' = heap
               /\ requested' = requested]_vars

\* Unmarshal of an empty buffer has returned while the cache holds a snapshot
C6_Witness ==
    /\ last.site = "Unmarshal:39"
    /\ codecCache # 0
    /\ DOMAIN Snapshot # {}

\* C7: on a non-empty buffer Unmarshal returns success only if decode
\* returned no error and read all len(b) bytes; a decode error or a short
\* read makes it return an error.
C7_UnmarshalStrict ==
    [][\A g \in Running :
         (g.op = "Unmarshal" /\ g.blen > 0 /\ Ends(g))
            => /\ Result(last'.site) = "nil"
                    => (g.pc = "use" /\ ~last'.derr /\ last'.n = g.blen)
               /\ (g.pc = "use" /\ (last'.derr \/ last'.n < g.blen))
                    => Result(last'.site) \in {"err", "read < buffer error"}]_vars

\* decode succeeded but read fewer bytes than the buffer holds, and
\* Unmarshal returned the read < buffer error
C7_Witness ==
    last.site = "Unmarshal:51" /\ ~last.derr /\ last.n = 0

\* C8: Unmarshal with a non-pointer target always panics, for every buffer
\* and every non-pointer target type; it never returns and never decodes
\* into the target.
C8_NonPointerPanics ==
    [][\A g \in Running :
         (g.op = "Unmarshal" /\ Kind(g.vtyp) # "Ptr" /\ Moves(g))
            => /\ g.pc # "use"
               /\ Ends(g) => Result(last'.site) = "panic"]_vars

\* the kinds of the specification's closed set, component types included
RECURSIVE InClosedSet(_, _)
InClosedSet(t, visited) ==
    IF t \in visited THEN TRUE
    ELSE IF Kind(t) \in StaticKinds THEN TRUE
    ELSE IF Kind(t) \in {"Array", "Slice"} THEN Kind(Elem(t)) = "Uint8"
    ELSE IF Kind(t) \in {"Struct", "Ptr", "Map"}
         THEN \A i \in 1..Len(Fields(t)) : InClosedSet(Fields(t)[i], visited \cup {t})
    ELSE FALSE

\* C9: the builder produces a codec for every kind of the closed set:
\* boolean, the integers, the floats, string, byte array, byte slice,
\* struct, pointer and map.
C9_ClosedSetBuilds ==
    (bres # "none" /\ InClosedSet(bt, {})) => bres = "codec"

\* the kind of t alone is one the closed set names
KindInClosedSet(t) ==
    \/ Kind(t) \in StaticKinds
    \/ Kind(t) \in {"Struct", "Ptr", "Map"}
    \/ Kind(t) \in {"Array", "Slice"} /\ Kind(Elem(t)) = "Uint8"

\* C10: codecOf panics for every type whose kind is outside the closed set,
\* arrays and slices of a non-byte element included, and yields no codec.
C10_UnsupportedPanics ==
    (bres # "none" /\ ~KindInClosedSet(bt)) => bres = "panic"

\* the build of []int32 panicked
C10_Witness ==
    bt = SliceOf(Int32T) /\ bres = "panic"

\* C11: a successful Marshal(v) returns a buffer of exactly the number of
\* bytes Size(v) returns: both are c.size(p, inline) of the codec built for
\* the type of v, and the encode fills the buffer.
C11_SizeMarshalConsistent ==
    [][\A g \in Running :
         (Ends(g) /\ Result(last'.site) \in {"size", "buffer"})
            => /\ g.c.typ = g.typ
               /\ last'.len = size([typ |-> g.typ, id |-> 0], last'.val, inline)
               /\ Result(last'.site) = "buffer" => last'.n = last'.len]_vars

\* Marshal of a non-zero Node has returned its buffer of two bytes
C11_Witness ==
    last.site = "Marshal:24" /\ last.val = 1 /\ last.len = 2

\* C12: every data error Marshal, MarshalTo or Unmarshal returns is wrapped
\* with the operation name and the target type.
C12_ErrorsWrapped ==
    ReturnsError(last) => (ErrorText(last.site).op /\ ErrorText(last.site).typ)

\* the number of codecOf calls made for the dependents of the types of S
RECURSIVE Expansions(_)
Expansions(S) ==
    IF S = {} THEN 0
    ELSE LET u == CHOOSE x \in S : TRUE
         IN  Len(dependents(u)) + Expansions(S \ {u})

\* types that reach a pointer to themselves
SelfReferential ==
    {NodeT, PtrTo(NodeT), WrapT, PtrTo(WrapT), StructOf(<<PtrTo(NodeT)>>)}

\* C13: cycle termination -- a top-level build starts with an empty
\* registry; codecOf called for a registered type returns without
\* recursing, so each registered type has its dependents built once and the
\* number of codecOf calls of a build is bounded by the types it registers;
\* the build of a self-referential struct type ends with a codec.
C13_CycleTermination ==
    /\ (bout = "running" /\ bcalls = 0) => bseen = {}
    /\ bcalls <= 1 + Expansions(bseen)
    /\ bcalls < MaxBuildCalls
    /\ (bt \in SelfReferential /\ bout # "none") => bout \in {"running", "codec"}

\* the build of Node has ended after four calls of codecOf: for Node, for
\* int32, for *Node, and for Node again, which the registry answered
C13_Witness ==
    bt = NodeT /\ bout = "codec" /\ bcalls = 4 /\ bseen = {NodeT, PtrTo(NodeT)}

\* the statements of cachedCodecOf, in program order
Rank(pc) ==
    CASE pc = "load" -> 1
      [] pc = "build" -> 2
      [] pc = "alloc" -> 3
      [] pc = "copy" -> 4
      [] pc = "store" -> 5
      [] OTHER -> 6

\* call g is inside cachedCodecOf
Inside(g) == g.pc \in {"load", "build", "alloc", "copy", "store"}

\* g2 is call g one step further on: at a later statement, or in the copy
\* loop with fewer entries left
Advanced(g, g2) ==
    /\ g2.op = g.op /\ g2.typ = g.typ
    /\ \/ Rank(g2.pc) > Rank(g.pc)
       \/ g.pc = "copy" /\ g2.pc = "copy" /\ Cardinality(g2.todo) < Cardinality(g.todo)

\* C14: cachedCodecOf never blocks and never retries -- every step of a call
\* inside cachedCodecOf takes it to a later statement (so it loads once,
\* builds at most once, stores at most once, and the copy loop is bounded by
\* the snapshot it loaded), and whatever the other goroutines do, the calls
\* inside cachedCodecOf all get out of it.
C14_NonBlocking ==
    /\ [][\A g \in Running :
            (Inside(g) /\ Moves(g))
               => \/ Ends(g)
                  \/ \E g2 \in BagToSet(inflight') :
                        /\ CopiesIn(g2, inflight') > CopiesIn(g2, inflight)
                        /\ Advanced(g, g2)]_vars
    /\ []<>(\A g \in Running : ~Inside(g))

\* two calls are inside cachedCodecOf at once, one about to store a
\* snapshot built from one that is no longer current
C14_Witness ==
    \E g, h \in Running :
        /\ g # h
        /\ g.pc = "store" /\ g.old # codecCache
        /\ Inside(h)

WithSoleFieldIn(S) ==
    S \cup {t \in AllTypes :
               Kind(t) = "Struct" /\ NumField(t) = 1 /\ Fields(t)[1] \in S}

\* the inlined types by the rule of the specification, from the pointers and
\* maps upwards
InlinedTypes ==
    WithSoleFieldIn(WithSoleFieldIn(WithSoleFieldIn(
        {t \in AllTypes : Kind(t) \in {"Ptr", "Map"}})))

\* C16: inlined(t) is true exactly for pointer types, map types and struct
\* types with exactly one field whose type is inlined, and false for every
\* other type; its evaluation ends for every type, self-referential ones
\* included.
C16_InlinedExactly ==
    binl # "none" => (binl = "inlined" <=> bt \in InlinedTypes)

\* inlined has returned true for Wrap, whose only field is a pointer to Wrap
C16_Witness ==
    bt = WrapT /\ binl = "inlined"

\* C17: a failed build leaves the cache unchanged -- the step in which a
\* call panics leaves codecCache and the snapshot it holds as they are, the
\* call has stored nothing before, and no map ever holds an entry for a type
\* outside the closed set, whatever the other calls do.
C17_FailedBuildNoPublish ==
    /\ [][\A g \in Running :
            (Ends(g) /\ Result(last'.site) = "panic")
               => /\ ~g.stored
                  /\ codecCache' = codecCache
                  /\ heap'[codecCache'] = Snapshot]_vars
    /\ [](\A m \in DOMAIN heap : \A t \in DOMAIN heap[m] : InClosedSet(t, {}))

\* the build of *[]int32 has panicked in a nested codecOf call, while the
\* cache holds Node and another call is inside cachedCodecOf
C17_Witness ==
    /\ last.site = "panic codecOf:217"
    /\ requested = {NodeT, PtrTo(SliceOf(Int32T))}
    /\ DOMAIN Snapshot = {NodeT}
    /\ \E h \in Running : Inside(h)

\* C18: in every snapshot codecCache has held, each entry maps a type to a
\* non-nil codec built for that type, and the codec cachedCodecOf returns to
\* a call is one built for the type of the call.
C18_EntriesMatchType ==
    /\ \A m \in published \cap DOMAIN heap : \A t \in DOMAIN heap[m] :
          heap[m][t] # NilCodec /\ heap[m][t].typ = t
    /\ \A g \in Running :
          g.pc = "use" => (g.c # NilCodec /\ g.c.typ = g.typ)

\* the snapshot holds entries for two types, the first copied from an older
\* snapshot, and a lookup of the first has hit
C18_Witness ==
    /\ DOMAIN Snapshot = {NodeT, PtrTo(NodeT)}
    /\ lastStore.typ = PtrTo(NodeT)
    /\ \E g \in Running : g.pc = "use" /\ g.hit /\ g.typ = NodeT

====
